---- MODULE Spec2Model ----
(***************************************************************************)
(* Mail-Sender: an Express server (src/app/server.js) that sends mail      *)
(* through an SMTP transport and keeps a history in one JSON file, and the *)
(* browser client (src/unnamed/part_000) that picks the attachments.       *)
(*                                                                         *)
(* Strings are sequences of characters (<<"a","@","b",".","c">>); a file   *)
(* name is a sequence whose last element is its extension.  A request that *)
(* lacks a field has a body record without that field.                     *)
(***************************************************************************)
EXTENDS Integers, Sequences, FiniteSets

(* ------------------------------ bounds -------------------------------- *)

\* send requests in one run, numbered in order of arrival
MaxReq == 2
\* the last millisecond Date.now() reaches
MaxTime == 2
\* distinct values of Math.random() once added to Date.now()
RandSteps == 1
\* files in one file-picker event of the client
MaxPick == 2
\* records of a stored list drawn for the read-only endpoints
MaxStored == 3

(* ------------------------- program constants -------------------------- *)

\* server.js:103 and part_000:113, 10 * 1024 * 1024
FileSizeLimit == 10485760
\* server.js:104 and :236, part_000:123
MaxFiles == 5

VARIABLES
  now,            \* Date.now()
  dbFile,         \* the content of /app/data/emails.json
  uploads,        \* the paths present in /tmp/uploads
  req,            \* the send requests: position in the handler, locals, response
  delStatus,      \* the status of the last response to DELETE /api/emails/:id
  sendMailCalls,  \* the calls of transporter.sendMail, in order, with their outcome
  getRes,         \* the response of the last GET /api/emails
  selectedFiles   \* client: let selectedFiles

vars == <<now, dbFile, uploads, req, sendMailCalls, delStatus, getRes, selectedFiles>>

serverVars == <<now, dbFile, uploads, req, sendMailCalls, delStatus>>

(* ------------------------------ strings ------------------------------- *)

Digits == <<"0", "1", "2", "3", "4", "5", "6", "7", "8", "9">>

DigitValue(c) == (CHOOSE i \in 1..10 : Digits[i] = c) - 1

IsDigit(c) == \E i \in 1..10 : Digits[i] = c

RECURSIVE NumberToString(_)
\* String(n) of a number n >= 0, as the client writes an id into the URL
NumberToString(n) ==
  IF n < 10 THEN <<Digits[n + 1]>>
  ELSE Append(NumberToString(n \div 10), Digits[(n % 10) + 1])

RECURSIVE DecimalValue(_)
DecimalValue(s) ==
  IF s = <<>> THEN 0
  ELSE 10 * DecimalValue(SubSeq(s, 1, Len(s) - 1)) + DigitValue(s[Len(s)])

AllDigits(s) == s # <<>> /\ \A i \in 1..Len(s) : IsDigit(s[i])

\* email.id == id (server.js:71) of a stored number and the id parameter of the
\* URL: the string is converted with Number(), and NaN equals nothing;
\* email.id != id (server.js:76) is its negation
LooseEq(num, str) == AllDigits(str) /\ DecimalValue(str) = num

\* the number of leading digits of s
RECURSIVE DigitPrefix(_)
DigitPrefix(s) ==
  IF s = <<>> \/ ~IsDigit(s[1]) THEN 0 ELSE 1 + DigitPrefix(Tail(s))

\* parseInt(x) of a query parameter, missing (no field) or a string: an optional
\* sign, then the longest run of digits; NaN when there is none
parseInt(query, key) ==
  IF key \notin DOMAIN query THEN [nan |-> TRUE, val |-> 0]
  ELSE LET s == query[key]
           signed == s # <<>> /\ s[1] \in {"-", "+"}
           body == IF signed THEN Tail(s) ELSE s
           k == DigitPrefix(body)
           v == DecimalValue(SubSeq(body, 1, k))
       IN  IF k = 0 THEN [nan |-> TRUE, val |-> 0]
           ELSE [nan |-> FALSE, val |-> IF signed /\ s[1] = "-" THEN 0 - v ELSE v]

\* parseInt(x) || d: NaN and 0 are falsy
OrDefault(p, d) == IF p.nan \/ p.val = 0 THEN d ELSE p.val

(* ------------------- the store: /app/data/emails.json ------------------ *)

\* JSON.stringify(data, null, 2) of a list of records: one entry per record,
\* its fields in the order addEmail builds them
JSONstringify(data) ==
  [i \in 1..Len(data) |->
     <<data[i].id, data[i].to, data[i].subject, data[i].message,
       data[i].attachments, data[i].messageId, data[i].status, data[i].sent_at>>]

\* JSON.parse of a complete text
JSONparse(text) ==
  [i \in 1..Len(text) |->
     [id |-> text[i][1], to |-> text[i][2], subject |-> text[i][3],
      message |-> text[i][4], attachments |-> text[i][5],
      messageId |-> text[i][6], status |-> text[i][7], sent_at |-> text[i][8]]]

\* a file that holds the whole text written, closing bracket included
FileOf(text) == [text |-> text, complete |-> TRUE]

\* a file cut short by a write that failed: JSON.parse throws on every proper
\* prefix of a text alike, and the model keeps the empty one
Truncated == [text |-> <<>>, complete |-> FALSE]

\* readDatabase: JSON.parse throws on a cut file, and the catch returns []
readDatabase ==
  IF dbFile.complete THEN JSONparse(dbFile.text) ELSE <<>>

\* fs.writeFileSync(dbPath, ...): the outcomes of one call.  It opens the file
\* for writing, which empties it, and writes the text; it throws when the open
\* fails (file untouched) or when the write fails (file cut short).
writeFileSync(text) ==
  {[file |-> FileOf(text), threw |-> FALSE],
   [file |-> dbFile, threw |-> TRUE],
   [file |-> Truncated, threw |-> TRUE]}

\* writeDatabase(data): the file it leaves and the boolean it returns
writeDatabase(data) ==
  {[file |-> w.file, ret |-> ~w.threw] : w \in writeFileSync(JSONstringify(data))}

\* emails.push(newEmail)
unshift_Push(emails, newEmail) == Append(emails, newEmail)

\* emails.unshift(newEmail)
unshift(emails, newEmail) == <<newEmail>> \o emails

\* Date.now() + Math.random(), counted in steps of 1/RandSteps ms
NewId(rnd) == now * RandSteps + rnd

\* { id, ...emailData, sent_at }
NewEmailAt(emailData, id, time) ==
  [id |-> id, to |-> emailData.to, subject |-> emailData.subject,
   message |-> emailData.message, attachments |-> emailData.attachments,
   messageId |-> emailData.messageId, status |-> emailData.status,
   sent_at |-> time]

\* newEmail of addEmail
NewEmail(emailData, rnd) == NewEmailAt(emailData, NewId(rnd), now)

\* addEmail(emailData): the outcomes, each the file left and the id returned;
\* the boolean writeDatabase returns is dropped
addEmail(emailData) ==
  LET emails == readDatabase
      Outcomes(rnd) ==
        {[file |-> w.file, id |-> NewId(rnd)] :
           w \in writeDatabase(unshift(emails, NewEmail(emailData, rnd)))}
  IN  UNION {Outcomes(rnd) : rnd \in 0..(RandSteps - 1)}

\* emails.filter(email => email.id != id)
FilterOut(emails, id) == SelectSeq(emails, LAMBDA email : ~LooseEq(email.id, id))

\* deleteEmailById(id): the outcomes, each the file left and the boolean
\* returned; the file is written only when a record was filtered out, and the
\* boolean writeDatabase returns is dropped
deleteEmailById(id) ==
  LET emails == readDatabase
      filteredEmails == FilterOut(emails, id)
      deleted == Len(emails) # Len(filteredEmails)
  IN  IF deleted
      THEN {[file |-> w.file, deleted |-> TRUE] : w \in writeDatabase(filteredEmails)}
      ELSE {[file |-> dbFile, deleted |-> FALSE]}

\* getEmails(page, limit) on the list read; emails.slice clamps its indices
Slice(emails, startIndex, endIndex) ==
  LET n == Len(emails)
      from == IF startIndex < 0 THEN (IF n + startIndex < 0 THEN 0 ELSE n + startIndex)
              ELSE (IF startIndex > n THEN n ELSE startIndex)
      to == IF endIndex < 0 THEN (IF n + endIndex < 0 THEN 0 ELSE n + endIndex)
            ELSE (IF endIndex > n THEN n ELSE endIndex)
  IN  IF from >= to THEN <<>> ELSE SubSeq(emails, from + 1, to)

\* Math.ceil(n / d) for n >= 0 and d # 0
Ceil(n, d) == IF d > 0 THEN (n + d - 1) \div d ELSE 0 - (n \div (0 - d))

\* getEmails with startIndex = page * limit
getEmails_FromPage(page, limit) ==
  LET emails == readDatabase
      startIndex == page * limit
      endIndex == startIndex + limit
  IN  [emails |-> Slice(emails, startIndex, endIndex),
       total |-> Len(emails),
       page |-> page,
       totalPages |-> Ceil(Len(emails), limit)]

\* getEmails(page, limit)
getEmails(page, limit) ==
  LET emails == readDatabase
      startIndex == (page - 1) * limit
      endIndex == startIndex + limit
  IN  [emails |-> Slice(emails, startIndex, endIndex),
       total |-> Len(emails),
       page |-> page,
       totalPages |-> Ceil(Len(emails), limit)]

(* --------------------- uploads: multer, /tmp/uploads -------------------- *)

\* Buffer.from(name, 'latin1').toString('utf8'): the two bytes of a character
\* sent as UTF-8 and read as latin1 become that character again
RECURSIVE Latin1ToUtf8(_)
Latin1ToUtf8(name) ==
  IF Len(name) >= 2 /\ name[1] = "Ã" /\ name[2] = "©"
  THEN <<"é">> \o Latin1ToUtf8(SubSeq(name, 3, Len(name)))
  ELSE IF name = <<>> THEN <<>>
  ELSE <<name[1]>> \o Latin1ToUtf8(Tail(name))

\* the extensions of allowedTypes
AllowedExt == {"jpg", "jpeg", "png", "gif", "pdf", "doc", "docx", "txt", "zip",
               "rar", "xlsx", "xls", "ppt", "pptx"}

\* the /i flag of allowedTypes
LowerCase(ext) ==
  CASE ext = "PDF" -> "pdf"
    [] ext = "PNG" -> "png"
    [] ext = "Txt" -> "txt"
    [] OTHER -> ext

\* allowedTypes.test(file.originalname): /\.(jpg|...|pptx)$/i
allowedTypes(originalname) ==
  /\ Len(originalname) >= 2
  /\ originalname[Len(originalname) - 1] = "."
  /\ LowerCase(originalname[Len(originalname)]) \in AllowedExt

\* storage.filename: `${timestamp}-${originalName}` under /tmp/uploads
FilePath(file) == <<now, Latin1ToUtf8(file.originalname)>>

\* the refusal without limits.fileSize
Refused_AnySize(files, i) ==
  \/ i > MaxFiles
  \/ ~allowedTypes(files[i].originalname)

\* whether multer refuses file i of the request: more than `files` files
\* (limits.files and the maxCount of upload.array), the fileFilter, limits.fileSize
Refused(files, i) ==
  \/ i > MaxFiles
  \/ ~allowedTypes(files[i].originalname)
  \/ files[i].size > FileSizeLimit

\* upload.array('attachments', 5) on the files of a request, in order: it stops with
\* an error at the first file it refuses, having stored the files before it
multer(files) ==
  LET bad == {i \in 1..Len(files) : Refused(files, i)}
      first == IF bad = {} THEN Len(files) + 1
               ELSE CHOOSE i \in bad : \A j \in bad : i <= j
  IN  [error |-> bad # {},
       files |-> [i \in 1..(first - 1) |->
                    [originalname |-> files[i].originalname,
                     path |-> FilePath(files[i])]]]

\* cleanupFile(filePath) on the upload directory
cleanupFile(dir, filePath) == dir \ {filePath}

\* uploadedFiles.forEach(file => cleanupFile(file.path))
RECURSIVE cleanupAll(_, _)
cleanupAll(dir, uploadedFiles) ==
  IF uploadedFiles = <<>> THEN dir
  ELSE cleanupAll(cleanupFile(dir, uploadedFiles[1].path), Tail(uploadedFiles))

Paths(uploadedFiles) == {uploadedFiles[i].path : i \in 1..Len(uploadedFiles)}

(* ----------------------- POST /api/send-email -------------------------- *)

\* !x of a body field: a missing field and the empty string are falsy
Falsy(body, key) == key \notin DOMAIN body \/ body[key] = <<>>

\* [^\s@]
NotSpaceAt(c) == c \notin {" ", "@"}

\* the pattern without its dot: /^[^\s@]+@[^\s@]+$/
emailRegex_NoDot(to) ==
  \E i \in 1..Len(to) :
    /\ to[i] = "@" /\ 1 < i /\ i < Len(to)
    /\ \A k \in 1..Len(to) : k # i => NotSpaceAt(to[k])

\* emailRegex.test(to): /^[^\s@]+@[^\s@]+\.[^\s@]+$/
emailRegex(to) ==
  \E i \in 1..Len(to), j \in 1..Len(to) :
    /\ to[i] = "@" /\ to[j] = "."
    /\ 1 < i /\ i + 1 < j /\ j < Len(to)
    /\ \A k \in 1..Len(to) : k # i => NotSpaceAt(to[k])

\* the first check of the handler (server.js:246)
MissingField(body) ==
  Falsy(body, "to") \/ Falsy(body, "subject") \/ Falsy(body, "message")

\* the two checks of the handler: the request goes on to the transport
Validated(body) == ~MissingField(body) /\ emailRegex(body.to)

\* attachments.map(att => att.filename) of the files multer stored
AttachmentNames(uploadedFiles) ==
  [i \in 1..Len(uploadedFiles) |-> Latin1ToUtf8(uploadedFiles[i].originalname)]

\* info.messageId of a dispatch: the transport names each dispatch it accepts
MessageId(call) == call

\* status: 'sent' of emailData
SentStatus == "sent"

\* emailData without the message id of the dispatch
EmailData_NoMessageId(mail, messageId) ==
  [to |-> mail.to, subject |-> mail.subject, message |-> mail.message,
   attachments |-> mail.attachments, messageId |-> 0, status |-> SentStatus]

\* emailData of the handler
EmailData(mail, messageId) ==
  [to |-> mail.to, subject |-> mail.subject, message |-> mail.message,
   attachments |-> mail.attachments, messageId |-> messageId, status |-> SentStatus]

(* ------------------------------ inputs --------------------------------- *)

ValidTo == <<"a", "@", "b", ".", "c">>

\* recipient strings: empty, well-formed, and one for each way to miss the pattern
ToValues ==
  {<<>>, ValidTo,
   <<"a", ".", "b", "@", "c", ".", "d">>,
   <<"a", "@", "b", "c">>,
   <<"a", "b", ".", "c">>,
   <<"a", " ", "@", "b", ".", "c">>,
   <<"a", "@", "b", "@", "c", ".", "d">>,
   <<"@", "b", ".", "c">>,
   <<"a", "@", "b", ".">>,
   <<"a", "@", ".", "c">>}

ValidBody == [to |-> ValidTo, subject |-> <<"s">>, message |-> <<"m">>]

\* request bodies: every field present (possibly empty), or one field missing
Bodies ==
  {[to |-> t, subject |-> <<"s">>, message |-> <<"m">>] : t \in ToValues}
  \cup {[to |-> ValidTo, subject |-> s, message |-> m] :
          s \in {<<>>, <<"s">>}, m \in {<<>>, <<"m">>}}
  \cup {[subject |-> <<"s">>, message |-> <<"m">>],
        [to |-> ValidTo, message |-> <<"m">>],
        [to |-> ValidTo, subject |-> <<"s">>]}

FileA == [originalname |-> <<"a", ".", "pdf">>, size |-> 1]
FileB == [originalname |-> <<"b", ".", "PNG">>, size |-> FileSizeLimit]
FileE == [originalname |-> <<"Ã", "©", ".", "txt">>, size |-> 2]
FileBig == [originalname |-> <<"a", ".", "pdf">>, size |-> FileSizeLimit + 1]
FileExe == [originalname |-> <<"c", ".", "exe">>, size |-> 1]
FileNoDot == [originalname |-> <<"pdf">>, size |-> 1]

Repeat(file, n) == [i \in 1..n |-> file]

\* attachment lists: none, some, the most allowed, one too many, and lists
\* with a file that is too large or of a type not allowed
RefusedLists ==
  {Repeat(FileA, MaxFiles + 1),
   <<FileBig>>, <<FileA, FileBig>>, <<FileA, FileExe>>, <<FileNoDot>>}

FileLists ==
  {<<>>, <<FileA>>, <<FileE, FileB>>, Repeat(FileA, MaxFiles)} \cup RefusedLists

\* the send requests of the model
SendInputs ==
  {[body |-> b, files |-> f] : b \in Bodies, f \in {<<>>, <<FileA>>}}
  \cup {[body |-> b, files |-> f] :
          b \in {[to |-> <<>>, subject |-> <<"s">>, message |-> <<"m">>]},
          f \in FileLists}
  \cup {[body |-> ValidBody, files |-> f] : f \in RefusedLists}

\* the id parameters of DELETE /api/emails/:id: the ids addEmail can make, as the
\* client writes them, one of them with a leading zero, and a non-numeric one
IdParams ==
  {NumberToString(n) : n \in RandSteps..((MaxTime + 1) * RandSteps - 1)}
  \cup {<<"0">> \o NumberToString(RandSteps), <<"x">>}

(* ------------------------------- state --------------------------------- *)

NoMail == [to |-> <<>>, subject |-> <<>>, message |-> <<>>, attachments |-> <<>>]

NoEmailId == 0 - 1

\* a request not yet received
Idle ==
  [pc |-> "idle", uploadedFiles |-> <<>>, mail |-> NoMail, call |-> 0,
   status |-> 0, success |-> FALSE, emailId |-> NoEmailId, messageId |-> 0]

\* no GET /api/emails answered yet
NoGet == [emails |-> <<>>, currentPage |-> 0, totalPages |-> 0, totalEmails |-> 0,
          hasNext |-> FALSE, hasPrev |-> FALSE, limit |-> 0]

\* server.js:19-21 writes [] into a new file; the client starts with no file
Init ==
  /\ now = 1
  /\ dbFile = FileOf(JSONstringify(<<>>))
  /\ uploads = {}
  /\ req = [r \in 1..MaxReq |-> Idle]
  /\ delStatus = 0
  /\ sendMailCalls = <<>>
  /\ getRes = NoGet
  /\ selectedFiles = <<>>

(* ------------------------------ actions -------------------------------- *)

\* Date.now() moves on
Tick ==
  /\ now < MaxTime
  /\ now' = now + 1
  /\ UNCHANGED <<dbFile, uploads, req, sendMailCalls, delStatus, getRes, selectedFiles>>

\* POST /api/send-email, from the arrival of the request to the first await:
\* multer stores the files or refuses the request (it then removes what it
\* stored and Express answers 500 without calling the handler); the handler
\* validates, cleans up and answers 400, or calls transporter.sendMail
PostSendEmail(r, in) ==
  LET up == multer(in.files)
      uploadedFiles == up.files
      stored == uploads \cup Paths(uploadedFiles)
  IN
  /\ req[r].pc = "idle"
  /\ \A q \in 1..(r - 1) : req[q].pc # "idle"
  /\ IF up.error
     THEN /\ req' = [req EXCEPT ![r] = [Idle EXCEPT !.pc = "refused", !.status = 500]]
          /\ uploads' = stored \ Paths(uploadedFiles)
          /\ UNCHANGED sendMailCalls
     ELSE IF ~Validated(in.body)
     THEN /\ req' = [req EXCEPT ![r] = [Idle EXCEPT !.pc = "done", !.status = 400]]
          /\ uploads' = cleanupAll(stored, uploadedFiles)
          /\ UNCHANGED sendMailCalls
     ELSE /\ sendMailCalls' = Append(sendMailCalls, [req |-> r, outcome |-> "pending"])
          /\ req' = [req EXCEPT ![r] =
                       [Idle EXCEPT !.pc = "await", !.uploadedFiles = uploadedFiles,
                                    !.mail = [to |-> in.body.to,
                                              subject |-> in.body.subject,
                                              message |-> in.body.message,
                                              attachments |-> AttachmentNames(uploadedFiles)],
                                    !.call = Len(sendMailCalls) + 1]]
          /\ uploads' = stored
  /\ UNCHANGED <<now, dbFile, delStatus, getRes, selectedFiles>>

\* transporter.sendMail resolves: the handler saves the record, cleans up and
\* answers 200 with success: true
SendMailResolves(r) ==
  /\ req[r].pc = "await"
  /\ LET messageId == MessageId(req[r].call)
     IN  \E saved \in addEmail(EmailData(req[r].mail, messageId)) :
           /\ dbFile' = saved.file
           /\ req' = [req EXCEPT ![r] =
                         [Idle EXCEPT !.pc = "done", !.status = 200,
                                      !.success = TRUE, !.emailId = saved.id,
                                      !.messageId = messageId]]
  /\ sendMailCalls' = [sendMailCalls EXCEPT ![req[r].call].outcome = "ok"]
  /\ uploads' = cleanupAll(uploads, req[r].uploadedFiles)
  /\ UNCHANGED <<now, delStatus, getRes, selectedFiles>>

\* transporter.sendMail rejects: the catch block cleans up and answers 500
SendMailRejects(r) ==
  /\ req[r].pc = "await"
  /\ sendMailCalls' = [sendMailCalls EXCEPT ![req[r].call].outcome = "failed"]
  /\ req' = [req EXCEPT ![r] = [Idle EXCEPT !.pc = "done", !.status = 500]]
  /\ uploads' = cleanupAll(uploads, req[r].uploadedFiles)
  /\ UNCHANGED <<now, dbFile, delStatus, getRes, selectedFiles>>

\* DELETE /api/emails/:id
DeleteEmail(id) ==
  /\ \E out \in deleteEmailById(id) :
       /\ dbFile' = out.file
       /\ delStatus' = IF out.deleted THEN 200 ELSE 404
  /\ UNCHANGED <<now, uploads, req, sendMailCalls, getRes, selectedFiles>>

Next ==
  \/ Tick
  \/ \E r \in 1..MaxReq, in \in SendInputs : PostSendEmail(r, in)
  \/ \E r \in 1..MaxReq : SendMailResolves(r)
  \/ \E r \in 1..MaxReq : SendMailRejects(r)
  \/ \E id \in IdParams : DeleteEmail(id)

\* the server under concurrent send and delete requests
Spec == Init /\ [][Next]_vars

(* --------------------------- GET /api/emails --------------------------- *)

\* server.js:176, parseInt(req.query.page) || 1
DefaultPage == 1
\* server.js:177, parseInt(req.query.limit) || 10
DefaultLimit == 10

\* GET /api/emails with the parsed query string `query`; the response, with
\* the limit that went to getEmails beside it
GetApiEmails(query) ==
  LET page == OrDefault(parseInt(query, "page"), DefaultPage)
      limit == OrDefault(parseInt(query, "limit"), DefaultLimit)
      result == getEmails(page, limit)
  IN
  /\ getRes' = [emails |-> result.emails,
                currentPage |-> result.page,
                totalPages |-> result.totalPages,
                totalEmails |-> result.total,
                hasNext |-> result.page < result.totalPages,
                hasPrev |-> result.page > 1,
                limit |-> limit]
  /\ UNCHANGED <<now, dbFile, uploads, req, sendMailCalls, delStatus, selectedFiles>>

\* values of a query parameter: page and limit numbers, and strings parseInt
\* reads as 0, as a negative number, as NaN, or only in part
QueryStrings ==
  {NumberToString(k) : k \in 0..(MaxStored + 1)}
  \cup {<<"-", "1">>, <<"x">>, <<"2", "x">>, <<>>}

Queries ==
  {[page |-> p, limit |-> l] : p \in QueryStrings, l \in QueryStrings}
  \cup {[page |-> p] : p \in QueryStrings}
  \cup {[limit |-> l] : l \in QueryStrings}
  \cup {<<>>}

\* a record as addEmail stores it
StoredRecord(k) ==
  NewEmailAt(EmailData([to |-> ValidTo, subject |-> <<"s">>, message |-> <<"m">>,
                        attachments |-> <<>>], MessageId(k)), k, 1)

\* the stored lists of up to MaxStored records, over two records
StoredLists ==
  UNION {[1..n -> {StoredRecord(1), StoredRecord(2)}] : n \in 0..MaxStored}

\* the history as any stored list, or a file that a failed write cut short
InitPage ==
  /\ dbFile \in {FileOf(JSONstringify(list)) : list \in StoredLists} \cup {Truncated}
  /\ now = 1
  /\ uploads = {}
  /\ req = [r \in 1..MaxReq |-> Idle]
  /\ sendMailCalls = <<>>
  /\ delStatus = 0
  /\ getRes = NoGet
  /\ selectedFiles = <<>>

NextPage == \E query \in Queries : GetApiEmails(query)

\* the read-only endpoint over every stored list
SpecPage == InitPage /\ [][NextPage]_vars

(* ------------------------- the browser client -------------------------- *)

\* the forEach of handleFileSelection: a file is pushed unless a selected file
\* has its name and size, or it is larger than 10MB
RECURSIVE AddFiles(_, _)
AddFiles(selected, newFiles) ==
  IF newFiles = <<>> THEN selected
  ELSE LET file == newFiles[1]
           exists == \E i \in 1..Len(selected) :
                       selected[i].name = file.name /\ selected[i].size = file.size
           next == IF ~exists /\ ~(file.size > FileSizeLimit)
                   THEN Append(selected, file) ELSE selected
       IN  AddFiles(next, Tail(newFiles))

\* the count check with selectedFiles.slice(-5)
KeepFirst_Last(selected) ==
  IF Len(selected) > MaxFiles
  THEN Slice(selected, Len(selected) - MaxFiles, Len(selected)) ELSE selected

\* the count check of handleFileSelection: selectedFiles.slice(0, 5)
KeepFirst(selected) ==
  IF Len(selected) > MaxFiles THEN Slice(selected, 0, MaxFiles) ELSE selected

\* handleFileSelection(e) with e.target.files = newFiles
handleFileSelection(newFiles) ==
  /\ selectedFiles' = KeepFirst(AddFiles(selectedFiles, newFiles))
  /\ UNCHANGED serverVars
  /\ UNCHANGED getRes

\* selectedFiles.splice(index, 1)
Splice(selected, index) ==
  [i \in 1..(Len(selected) - 1) |->
     IF i <= index THEN selected[i] ELSE selected[i + 1]]

\* removeFile(index), called from the button that updateFileDisplay made for
\* the file at that index
removeFile(index) ==
  /\ index \in 0..(Len(selectedFiles) - 1)
  /\ selectedFiles' = Splice(selectedFiles, index)
  /\ UNCHANGED serverVars
  /\ UNCHANGED getRes

\* handleFormSubmit(e) once the response is there: the selection is cleared
\* when response.ok, and kept otherwise
handleFormSubmit(ok) ==
  /\ selectedFiles' = IF ok THEN <<>> ELSE selectedFiles
  /\ UNCHANGED serverVars
  /\ UNCHANGED getRes

\* the files a user can pick: three names, sizes up to, at and over the limit
ClientFiles ==
  {[name |-> n, size |-> z] :
     n \in {"a.pdf", "b.pdf", "c.pdf"},
     z \in {1, FileSizeLimit, FileSizeLimit + 1}}

\* the file lists of one file-picker event
Picks == UNION {[1..n -> ClientFiles] : n \in 0..MaxPick}

NextClient ==
  \/ \E newFiles \in Picks : handleFileSelection(newFiles)
  \/ \E index \in 0..(MaxFiles - 1) : removeFile(index)
  \/ \E ok \in BOOLEAN : handleFormSubmit(ok)

\* the client's file selection
SpecClient == Init /\ [][NextClient]_vars

(* ============================ properties ============================== *)

\* the list the history file holds; an unreadable file holds none
Stored == IF dbFile.complete THEN JSONparse(dbFile.text) ELSE <<>>

StoredNext == IF dbFile'.complete THEN JSONparse(dbFile'.text) ELSE <<>>

\* request r is received in this step
Received(r) == req[r].pc = "idle" /\ req'[r].pc # "idle"

\* the dispatch of request r completes successfully in this step
Resolved(r) == req[r].pc = "await" /\ sendMailCalls'[req[r].call].outcome = "ok"

\* the dispatch of request r fails in this step
Rejected(r) == req[r].pc = "await" /\ sendMailCalls'[req[r].call].outcome = "failed"

\* the calls of the transport made for request r
CallsFor(r) == {i \in 1..Len(sendMailCalls) : sendMailCalls[i].req = r}

CallsForNext(r) == {i \in 1..Len(sendMailCalls') : sendMailCalls'[i].req = r}

(* ------------------------------- C1 ----------------------------------- *)

\* the email pattern spelled out: text, '@', text, '.', text, each text
\* non-empty and free of spaces and '@'
C1_Text(s) == s # <<>> /\ \A k \in 1..Len(s) : s[k] # " " /\ s[k] # "@"

C1_MatchesPattern(to) ==
  \E i \in 1..Len(to), j \in 1..Len(to) :
    /\ i < j /\ to[i] = "@" /\ to[j] = "."
    /\ C1_Text(SubSeq(to, 1, i - 1))
    /\ C1_Text(SubSeq(to, i + 1, j - 1))
    /\ C1_Text(SubSeq(to, j + 1, Len(to)))

C1_Absent(body, key) == key \notin DOMAIN body \/ Len(body[key]) = 0

C1_BadRequest(body) ==
  \/ C1_Absent(body, "to") \/ C1_Absent(body, "subject") \/ C1_Absent(body, "message")
  \/ ~C1_MatchesPattern(body.to)

\* the bad requests among the inputs, and those of them that multer lets
\* through to the handler
C1_BadInputs == {in \in SendInputs : C1_BadRequest(in.body)}

C1_BadInputsToHandler ==
  {in \in C1_BadInputs : \A i \in 1..Len(in.files) : ~Refused(in.files, i)}

\* the step leaves the transport and the history file alone
C1_NoEffect(r) ==
  sendMailCalls' = sendMailCalls /\ dbFile' = dbFile /\ req'[r].pc # "await"

\* the step answers request r with 400 and success=false
C1_Answered400(r) ==
  req'[r].pc = "done" /\ req'[r].status = 400 /\ ~req'[r].success

C2_Added(after, before) ==
  IF after = before THEN {}
  ELSE {after[i] : i \in 1..Len(after)} \ {before[i] : i \in 1..Len(before)}

\* record rec comes from the dispatch of request r that completes in this step
C2_FromDispatch(rec, r) ==
  /\ Resolved(r)
  /\ req'[r].success /\ req'[r].status = 200
  /\ rec.messageId = req'[r].messageId
  /\ rec.status = "sent"
  /\ rec.to = req[r].mail.to /\ rec.subject = req[r].mail.subject
  /\ rec.message = req[r].mail.message
  /\ rec.attachments = req[r].mail.attachments

\* C2: a record enters the history only in the step in which the dispatch of a send
\* request completes successfully, and it carries that request's fields, the
\* message id of that dispatch (the one the response reports) and status 'sent';
\* every stored record names a dispatch that succeeded, and no two dispatches share
\* a message id; a dispatch that fails ends its request with 500 and
\* success=false and leaves the history file as it was; the transport is called
\* at most once for a request.
C2_RecordsFromDispatch ==
  [][/\ \A rec \in C2_Added(StoredNext, Stored) :
          \E r \in 1..MaxReq : C2_FromDispatch(rec, r)
     /\ \A i \in 1..Len(StoredNext) :
          \E c \in 1..Len(sendMailCalls') :
            /\ sendMailCalls'[c].outcome = "ok"
            /\ StoredNext[i].messageId = MessageId(c)
            /\ \A d \in 1..Len(sendMailCalls') : MessageId(d) = MessageId(c) => d = c
     /\ \A r \in 1..MaxReq :
          /\ Rejected(r) =>
               /\ req'[r].pc = "done" /\ req'[r].status = 500 /\ ~req'[r].success
               /\ dbFile' = dbFile
          /\ Cardinality(CallsForNext(r)) <= 1
          /\ req[r].pc = "done" => req'[r] = req[r]]_vars

\* a stored record of one request beside a request whose dispatch failed
C2_Witness ==
  \E r, q \in 1..MaxReq :
    /\ req[r].success /\ req[q].pc = "done" /\ req[q].status = 500
    /\ \E i \in 1..Len(Stored) : Stored[i].messageId = req[r].messageId
    /\ sendMailCalls[q].outcome = "failed"

(* ------------------------------- C3 ----------------------------------- *)

\* the record of request r is in the stored list after the step
C3_Stored(r) ==
  \E i \in 1..Len(StoredNext) : StoredNext[i].messageId = req'[r].messageId

C4_SendList(r) ==
  unshift(readDatabase,
          NewEmailAt(EmailData(req[r].mail, req'[r].messageId), req'[r].emailId, now))

\* C4: after a send answered success=true with an emailId, and after a delete
\* answered 'Email deleted successfully', the file holds the JSON encoding of the
\* list the mutation computed in memory, and a read returns that list.
C4_FileHoldsComputedList ==
  [][/\ \A r \in 1..MaxReq :
          (Resolved(r) /\ req'[r].success /\ req'[r].emailId # NoEmailId) =>
             /\ dbFile' = FileOf(JSONstringify(C4_SendList(r)))
             /\ StoredNext = C4_SendList(r)
     /\ \A id \in IdParams : (delStatus' = 200 /\ DeleteEmail(id)) =>
          /\ dbFile' = FileOf(JSONstringify(FilterOut(readDatabase, id)))
          /\ StoredNext = FilterOut(readDatabase, id)]_vars

(* ------------------------------- C5 ----------------------------------- *)

\* C5: a DELETE for an id that some stored record has is answered 200 and leaves
\* no stored record with that id and every other record, in order; a DELETE for
\* an id that no stored record has is answered 404 and leaves the file as it was.
C5_DeleteById ==
  [][\A id \in IdParams : DeleteEmail(id) =>
       IF \E i \in 1..Len(Stored) : LooseEq(Stored[i].id, id)
       THEN /\ delStatus' = 200
            /\ \A i \in 1..Len(StoredNext) : ~LooseEq(StoredNext[i].id, id)
            /\ StoredNext = SelectSeq(Stored, LAMBDA rec : ~LooseEq(rec.id, id))
       ELSE /\ delStatus' = 404
            /\ dbFile' = dbFile]_vars

(* ------------------------------- C6 ----------------------------------- *)

\* the least number of pages of `limit` records that hold n records
C6_PageCount(n, limit) == CHOOSE t \in 0..n : t * limit >= n /\ \A u \in 0..(t - 1) : u * limit < n

\* the records at offsets (page-1)*limit up to, not including, page*limit
C6_Page(list, page, limit) ==
  LET offsets == {k \in 0..(Len(list) - 1) : (page - 1) * limit <= k /\ k < page * limit}
  IN  [i \in 1..Cardinality(offsets) |-> list[(page - 1) * limit + i]]

RECURSIVE C6_AllPages(_, _)
\* the pages 1..lastPage that getEmails returns for `limit`, one after another
C6_AllPages(lastPage, limit) ==
  IF lastPage = 0 THEN <<>>
  ELSE C6_AllPages(lastPage - 1, limit) \o getEmails(lastPage, limit).emails

\* C6: for page >= 1 and limit >= 1 a listing holds the stored records at offsets
\* (page-1)*limit to page*limit-1, the total is the length of the stored list,
\* totalPages is ceil(total/limit), hasNext is page < totalPages and hasPrev is
\* page > 1; the pages 1..totalPages of any limit, one after another, are the
\* stored list.
C6_OffsetPagination ==
  /\ (getRes.limit >= 1 /\ getRes.currentPage >= 1) =>
       /\ getRes.emails = C6_Page(Stored, getRes.currentPage, getRes.limit)
       /\ getRes.totalEmails = Len(Stored)
       /\ getRes.totalPages = C6_PageCount(Len(Stored), getRes.limit)
       /\ getRes.hasNext <=> getRes.currentPage < getRes.totalPages
       /\ getRes.hasPrev <=> getRes.currentPage > 1
  /\ \A limit \in 1..(MaxStored + 1) :
       /\ getEmails(1, limit).totalPages = C6_PageCount(Len(Stored), limit)
       /\ C6_AllPages(getEmails(1, limit).totalPages, limit) = Stored

\* a middle page was listed: one record of three, with a page before and after
C6_Witness ==
  /\ Len(Stored) = 3 /\ Stored[1] # Stored[2]
  /\ getRes.limit = 1 /\ getRes.currentPage = 2
  /\ getRes.emails = <<Stored[2]>>
  /\ getRes.hasNext /\ getRes.hasPrev

(* ------------------------------- C7 ----------------------------------- *)

\* the name ends in a dot and one of the allowed extensions, in either case
C7_AllowedName(name) ==
  \E ext \in AllowedExt :
    /\ Len(name) >= 2 /\ name[Len(name) - 1] = "."
    /\ \/ name[Len(name)] = ext
       \/ <<name[Len(name)], ext>> \in {<<"PDF", "pdf">>, <<"PNG", "png">>, <<"Txt", "txt">>}

\* more than 5 attachments, one over 10MB, or one of a type not allowed
C7_OverLimits(files) ==
  \/ Len(files) > 5
  \/ \E i \in 1..Len(files) : files[i].size > 10 * 1024 * 1024
  \/ \E i \in 1..Len(files) : ~C7_AllowedName(files[i].originalname)

C7_RefusedInputs == {in \in SendInputs : C7_OverLimits(in.files)}

\* the request was turned away before the handler: no call to the transport,
\* the history as it was, none of its files left
C7_TurnedAway(r) ==
  /\ req'[r].pc = "refused"
  /\ ~req'[r].success
  /\ CallsForNext(r) = {}
  /\ dbFile' = dbFile
  /\ uploads' \subseteq uploads

\* C7: a send request with more than 5 attachments, an attachment over 10MB or
\* one whose name does not end in an allowed extension never reaches the send
\* handler: no call to the transport is made for it and no record is added.
C7_OverLimitsRefused ==
  [][\A r \in 1..MaxReq :
       /\ (Received(r) /\ ~C7_TurnedAway(r)) =>
            \A in \in C7_RefusedInputs : ~PostSendEmail(r, in)
       /\ req[r].pc = "refused" => (req'[r] = req[r] /\ CallsForNext(r) = {})]_vars

\* a request was refused while another one, accepted, waits for its dispatch
C7_Witness ==
  \E r, q \in 1..MaxReq :
    /\ req[r].pc = "refused" /\ req[q].pc = "await"
    /\ CallsFor(r) = {} /\ CallsFor(q) # {}

(* ------------------------------- C8 ----------------------------------- *)

\* the files of a pick that the selection takes: not over 10MB, not already
\* selected with that name and size, not earlier in the pick with them
C8_Taken(selected, newFiles) ==
  LET same(f, g) == f.name = g.name /\ f.size = g.size
      taken == {i \in 1..Len(newFiles) :
                  /\ newFiles[i].size <= 10 * 1024 * 1024
                  /\ \A k \in 1..Len(selected) : ~same(selected[k], newFiles[i])
                  /\ \A j \in 1..(i - 1) : ~same(newFiles[j], newFiles[i])}
      nth(k) == CHOOSE i \in taken : Cardinality({j \in taken : j < i}) = k - 1
  IN  [k \in 1..Cardinality(taken) |-> newFiles[nth(k)]]

\* C8: the client's selection never holds more than 5 files, a file over 10MB,
\* or two files of the same name and size; when a pick would make more than 5,
\* the first 5 in selection order are kept.
C8_SelectionLimits ==
  /\ Len(selectedFiles) <= 5
  /\ \A i \in 1..Len(selectedFiles) : selectedFiles[i].size <= 10 * 1024 * 1024
  /\ \A i, j \in 1..Len(selectedFiles) :
       (selectedFiles[i].name = selectedFiles[j].name
          /\ selectedFiles[i].size = selectedFiles[j].size) => i = j
  /\ \A newFiles \in Picks :
       LET all == selectedFiles \o C8_Taken(selectedFiles, newFiles)
           kept == KeepFirst(AddFiles(selectedFiles, newFiles))
       IN  IF Len(all) > 5 THEN kept = SubSeq(all, 1, 5) ELSE kept = all

\* five files are selected and a pick of new files would make more
C8_Witness ==
  /\ Len(selectedFiles) = 5
  /\ \E newFiles \in Picks : C8_Taken(selectedFiles, newFiles) # <<>>

(* ------------------------------- C9 ----------------------------------- *)

\* the record that the send of request r, answered with success, reported
C9_RecordOf(r, rec) ==
  rec.id = req'[r].emailId /\ rec.messageId = req'[r].messageId

\* C9: no update is lost, whatever the interleaving of sends and deletes: a
\* send answered with success leaves its record in the history beside every
\* record that was there, a delete answered 200 leaves no record of that id and
\* every other record, and a record leaves the history only by such a delete.
C9_NoLostUpdate ==
  [][/\ \A r \in 1..MaxReq : (Resolved(r) /\ req'[r].success) =>
          /\ \E i \in 1..Len(StoredNext) : C9_RecordOf(r, StoredNext[i])
          /\ \A i \in 1..Len(Stored) : \E j \in 1..Len(StoredNext) :
               StoredNext[j] = Stored[i]
     /\ \A id \in IdParams : (delStatus' = 200 /\ DeleteEmail(id)) =>
          /\ \A j \in 1..Len(StoredNext) : ~LooseEq(StoredNext[j].id, id)
          /\ \A i \in 1..Len(Stored) :
               LooseEq(Stored[i].id, id) \/ \E j \in 1..Len(StoredNext) :
                                              StoredNext[j] = Stored[i]
     /\ (\E i \in 1..Len(Stored) : \A j \in 1..Len(StoredNext) :
           StoredNext[j] # Stored[i]) =>
          \E id \in IdParams : delStatus' = 200 /\ DeleteEmail(id)]_vars

(* ------------------------------- C10 ---------------------------------- *)

\* the files of request r are gone from the upload directory after the step
C10_Removed(files) == Paths(files) \cap uploads' = {}

\* the exit of request r in this step, if it is one, leaves none of its files
C10_GoneAtExit(r) ==
  /\ (Received(r) /\ req'[r].status = 400) =>
       \A in \in SendInputs :
         PostSendEmail(r, in) => C10_Removed(multer(in.files).files)
  /\ (Resolved(r) \/ Rejected(r)) => C10_Removed(req[r].uploadedFiles)

\* the first half alone: every exit of a send request leaves none of its files
C10_RemovedAtExit == [][\A r \in 1..MaxReq : C10_GoneAtExit(r)]_vars

\* C10: on every exit of a send request (validation failure, dispatch failure,
\* success) its temporary files are gone when the response is sent, and on the
\* success exit they are removed only after the dispatch has completed: they
\* are all there when it completes.
C10_CleanupAfterDispatch ==
  [][\A r \in 1..MaxReq :
       /\ C10_GoneAtExit(r)
       /\ Resolved(r) => Paths(req[r].uploadedFiles) \subseteq uploads]_vars

(* ------------------------------- C11 ---------------------------------- *)

\* C11: whatever the query string of GET /api/emails, the page and the limit
\* that go to getEmails are integers >= 1, the response holds no more than
\* limit records, and totalPages is not negative.
C11_PageAndLimitPositive ==
  getRes # NoGet =>
    /\ getRes.currentPage >= 1
    /\ getRes.limit >= 1
    /\ Len(getRes.emails) <= getRes.limit
    /\ getRes.totalPages >= 0

====
